---- MODULE Spec2Model ----
(***************************************************************************)
(* The Kubernetes server class of pytest-server-fixtures                   *)
(* (pytest_server_fixtures/serverclass/kubernetes.py): module start-up,    *)
(* construction of a KubernetesServer, and its launch / run / teardown /   *)
(* hostname / namespace operations against a cluster whose pod changes     *)
(* phase on its own between two API calls.                                 *)
(*                                                                         *)
(* One step of the model is one thing the calling thread does that the     *)
(* cluster can observe or that takes time: one API request with its        *)
(* response, or one backoff sleep.  The cluster's own steps interleave.    *)
(***************************************************************************)
EXTENDS Integers, Sequences, FiniteSets, TLC

VARIABLES
    markerFile,   \* does /var/run/secrets/kubernetes.io/namespace exist
    cfgNs,        \* CONFIG.k8s_namespace (<<>> when not set)
    args,         \* the constructor's arguments, and CONFIG.session_id
    module,       \* "unloaded" | "loaded" | "NameError": the import of kubernetes.py
    IN_CLUSTER,   \* module global, line 22
    NAMESPACE,    \* module global, line 23
    namespace,    \* module global read by line 27 and line 83: [bound, val]
    configLoaded, \* config.load_incluster_config() has run
    patched,      \* the test harness has rebound module globals
    self,         \* the KubernetesServer instance, or the constructor's outcome
    pod,          \* the cluster's record of the pod named self.name
    pc,           \* where the calling thread is
    tries,        \* _tries of the retry driver
    delay,        \* _delay of the retry driver
    calls,        \* operations called on the controller so far
    cur,          \* the operation in progress, or the last one finished
    prev,         \* the operation finished before cur: [op, outcome, sawRunning, created]
    ctl,          \* several controllers side by side: each one's instance and thread
    pods          \* the cluster's pods, by name

vars == <<markerFile, cfgNs, args, module, IN_CLUSTER, NAMESPACE, namespace, configLoaded,
          patched, self, pod, pc, tries, delay, calls, cur, prev, ctl, pods>>

envVars == <<markerFile, cfgNs, args, ctl, pods>>
moduleVars == <<module, IN_CLUSTER, NAMESPACE, namespace, configLoaded, patched>>
retryVars == <<tries, delay>>

(***************************************************************************)
(* Bounds of the model.                                                    *)
(***************************************************************************)
\* operations the test calls on one controller
MaxCalls == 2

(***************************************************************************)
(* Program constants.                                                      *)
(***************************************************************************)
\* @retry(..., tries=28, delay=1, backoff=2, max_delay=10)
Tries == 28
Delay == 1
Backoff == 2
MaxDelay == 10
\* body.grace_period_seconds = 1
GracePeriod == 1
\* if e.status == 404
NotFound == 404
\* statuses of the API errors the cluster answers with besides 404
Conflict == 409
ServerError == 500

Phases == {"Pending", "Running", "Succeeded", "Failed", "Unknown"}

Min(a, b) == IF a <= b THEN a ELSE b

RECURSIVE Pow2(_)
Pow2(n) == IF n <= 0 THEN 1 ELSE 2 * Pow2(n - 1)

(***************************************************************************)
(* Text, as a sequence of tokens; <<>> is the empty string (falsy).        *)
(***************************************************************************)
Whitespace == {" ", "\n"}

RECURSIVE LStrip(_)
LStrip(s) == IF s # <<>> /\ Head(s) \in Whitespace THEN LStrip(Tail(s)) ELSE s

RECURSIVE RStrip(_)
RStrip(s) ==
    IF s # <<>> /\ s[Len(s)] \in Whitespace THEN RStrip(SubSeq(s, 1, Len(s) - 1)) ELSE s

\* str.strip()
Strip(s) == RStrip(LStrip(s))

\* what open(marker).read() returns in-cluster
MarkerContent == <<"pod-ns", "\n">>

Unbound == [bound |-> FALSE, val |-> <<>>]
Bound(v) == [bound |-> TRUE, val |-> v]

(***************************************************************************)
(* The cluster: the pod named self.name, and the three API operations the  *)
(* controller uses.  A response is what the client call returns or the     *)
(* ApiException it raises.                                                 *)
(***************************************************************************)
PodName == "fixture-pod"
\* an address, as text; <<>> is no address
PodIP == <<"10.0.0.7">>

Absent == [present |-> FALSE, phase |-> "", pod_ip |-> <<>>, terminating |-> FALSE]
Created == [present |-> TRUE, phase |-> "Pending", pod_ip |-> <<>>, terminating |-> FALSE]

NoResp == [kind |-> "none", phase |-> "", pod_ip |-> <<>>, status |-> 0]
OkResp(p) == [kind |-> "ok", phase |-> p.phase, pod_ip |-> p.pod_ip, status |-> 0]
ErrResp(st) == [kind |-> "err", phase |-> "", pod_ip |-> <<>>, status |-> st]

\* read_namespaced_pod_status: the status of a pod that exists, 404 for one that
\* does not, or a transient server error
ReadResponses(p) ==
    (IF p.present THEN {OkResp(p)} ELSE {ErrResp(NotFound)}) \cup {ErrResp(ServerError)}

\* create_namespaced_pod: 409 when the name is taken, or a transient server error
CreateResponses(p) ==
    (IF p.present THEN {ErrResp(Conflict)} ELSE {OkResp(Created)}) \cup {ErrResp(ServerError)}

\* delete_namespaced_pod: 404 when there is no such pod, or a transient server error
DeleteResponses(p) ==
    (IF p.present THEN {OkResp(p)} ELSE {ErrResp(NotFound)}) \cup {ErrResp(ServerError)}

\* the phases a pod can move to on its own
PhaseSteps(ph) ==
    CASE ph = "Pending" -> {"Running"}
      [] ph = "Running" -> {"Succeeded", "Failed", "Unknown"}
      [] ph = "Unknown" -> {"Running", "Failed"}
      [] OTHER -> {}

(***************************************************************************)
(* Labels and the pod the controller asks for.  A mapping is a function    *)
(* from its keys.                                                          *)
(***************************************************************************)
EmptyMap == [k \in {} |-> ""]

SystemKeys == {"server-fixtures", "server-fixtures/server-type", "server-fixtures/session-id"}

\* the dict literal of lines 48-52
SystemLabels(server_type, session_id) ==
    [k \in SystemKeys |->
        CASE k = "server-fixtures" -> "kubernetes-server-fixtures"
          [] k = "server-fixtures/server-type" -> server_type
          [] OTHER -> session_id]

\* merge_dicts(x, y) of serverclass/common.py: a new mapping, y's value on a shared key
MergeDicts(x, y) ==
    [k \in DOMAIN x \cup DOMAIN y |-> IF k \in DOMAIN y THEN y[k] ELSE x[k]]

\* the two mappings are merged the other way round
CtorLabelsCallerWins(labels, server_type, session_id) ==
    MergeDicts(SystemLabels(server_type, session_id), labels)

\* self._labels, lines 48-52
CtorLabels(labels, server_type, session_id) ==
    MergeDicts(labels, SystemLabels(server_type, session_id))

\* the container also gets the env mapping
GetPodSpecWithEnv(s) ==
    [containers |-> <<[name |-> "fixture", image |-> s.image, command |-> s.run_cmd,
                       env |-> s.base_env]>>]

\* _get_pod_spec, lines 89-98
GetPodSpec(s) ==
    [containers |-> <<[name |-> "fixture", image |-> s.image, command |-> s.run_cmd]>>]

\* the V1Pod of lines 102-104
PodBody(s) ==
    [metadata |-> [name |-> s.name, labels |-> s.labels], spec |-> GetPodSpec(s)]

NoBody == [metadata |-> [name |-> "", labels |-> EmptyMap], spec |-> [containers |-> <<>>]]

\* the arguments of the scenario of the specification, section 8
DefaultArgs ==
    [server_type |-> "redis", cmd |-> <<"redis-server">>, env |-> EmptyMap,
     image |-> "redis:7", labels |-> [k \in {"team"} |-> "x"], session_id |-> "s1"]

\* mappings a caller can pass as labels: any of these keys, with any of these values
CallerKeys == {"team", "server-fixtures", "server-fixtures/server-type"}
CallerValues == {"x", "redis"}
CallerLabels == UNION {[ks -> CallerValues] : ks \in SUBSET CallerKeys}

ArgSets ==
    [server_type : {"redis", "mongo"},
     cmd : {<<"redis-server">>, <<"mongod", "--quiet">>},
     env : {EmptyMap, [k \in {"DEBUG"} |-> "1"]},
     image : {"redis:7"},
     labels : CallerLabels,
     session_id : {"s1"}]

(***************************************************************************)
(* The record of one operation of the controller.                          *)
(***************************************************************************)
Fresh(op) ==
    [op |-> op, done |-> FALSE, outcome |-> "none", status |-> 0, value |-> <<>>,
     creates |-> 0, deletes |-> 0, reads |-> 0, founds |-> 0, others |-> 0,
     sleeps |-> 0, slept |-> 0, lastSleep |-> 0, grace |-> 0,
     createFailed |-> FALSE, deleteFailed |-> FALSE, sawRunning |-> FALSE,
     last |-> NoResp, labels |-> EmptyMap, body |-> NoBody, ns |-> <<>>]

Summary(c) ==
    [op |-> c.op, outcome |-> c.outcome, sawRunning |-> c.sawRunning,
     created |-> (c.creates = 1 /\ ~c.createFailed)]

Returned(c, v) == [c EXCEPT !.done = TRUE, !.outcome = "ok", !.value = v]
Raised(c, exc, st) == [c EXCEPT !.done = TRUE, !.outcome = exc, !.status = st]

\* controllers that run side by side in one test session, and the names the base
\* class gives their pods: one name each
Controllers == {"a", "b"}
NameOf(c) == IF c = "a" THEN "pod-a" ELSE "pod-b"
PodNames == {NameOf(c) : c \in Controllers}

\* one controller of the session: stage counts its constructor and its calls
NewLocal(c) ==
    [name |-> NameOf(c), stage |-> 0, op |-> "none", pc |-> "idle", done |-> FALSE,
     outcome |-> "none", status |-> 0, value |-> <<>>, tries |-> 0, delay |-> 0,
     touched |-> {}]

NoInstance ==
    [state |-> "none", name |-> "", base |-> FALSE, v1api |-> FALSE,
     base_cmd |-> <<>>, base_env |-> EmptyMap,
     image |-> "", run_cmd |-> <<>>, labels |-> EmptyMap]

\* before the module is imported
Unloaded ==
    /\ markerFile \in BOOLEAN
    /\ cfgNs \in {<<>>, <<"cfg-ns">>}
    /\ module = "unloaded"
    /\ IN_CLUSTER = FALSE
    /\ NAMESPACE = <<>>
    /\ namespace = Unbound
    /\ configLoaded = FALSE
    /\ patched = FALSE
    /\ self = NoInstance
    /\ pod = Absent
    /\ pc = "idle"
    /\ tries = 0
    /\ delay = 0
    /\ calls = 0
    /\ cur = Fresh("none")
    /\ prev = Summary(Fresh("none"))
    /\ ctl = [c \in Controllers |-> NewLocal(c)]
    /\ pods = [n \in PodNames |-> Absent]

Init == Unloaded /\ args = DefaultArgs

\* the constructor's arguments drawn from ArgSets
InitArgs == Unloaded /\ args \in ArgSets

(***************************************************************************)
(* Module start-up, lines 22-30.                                           *)
(***************************************************************************)
\* the name line 27 reads: `namespace`, which line 23 did not bind (it bound NAMESPACE)
ModuleStart ==
    /\ module = "unloaded"
    /\ IN_CLUSTER' = markerFile
    /\ NAMESPACE' = cfgNs
    /\ IF markerFile
       THEN /\ configLoaded' = TRUE
            /\ IF ~namespace.bound
               THEN /\ module' = "NameError"
                    /\ UNCHANGED namespace
               ELSE /\ module' = "loaded"
                    /\ namespace' = IF namespace.val = <<>>
                                    THEN Bound(Strip(MarkerContent))
                                    ELSE namespace
       ELSE /\ module' = "loaded"
            /\ UNCHANGED <<configLoaded, namespace>>
    /\ UNCHANGED <<envVars, patched, self, pod, pc, retryVars, calls, cur, prev>>

(***************************************************************************)
(* The test harness of the simulated cluster.  Module start-up leaves no   *)
(* way to an instance: in a cluster the import raises NameError, outside   *)
(* one the constructor raises.  The methods run only once a harness has    *)
(* rebound IN_CLUSTER of the imported module; it may or may not bind the   *)
(* global `namespace` as well, and where it does not, every method that    *)
(* reads the namespace raises NameError.                                   *)
(***************************************************************************)
HarnessPatch ==
    /\ module = "loaded"
    /\ ~patched
    /\ self.state = "none"
    /\ patched' = TRUE
    /\ IN_CLUSTER' = TRUE
    /\ namespace' \in {Unbound, Bound(<<"test-ns">>)}
    /\ UNCHANGED <<envVars, module, NAMESPACE, configLoaded, self, pod, pc, retryVars,
                   calls, cur, prev>>

(***************************************************************************)
(* KubernetesServer.__init__, lines 41-54.                                 *)
(***************************************************************************)
\* the in-cluster test is missing
CtorNeverRaises(inCluster) == FALSE

\* line 43
CtorRaises(inCluster) == ~inCluster

Construct ==
    /\ module = "loaded"
    /\ self.state = "none"
    /\ LET based == [NoInstance EXCEPT !.name = PodName, !.base = TRUE,
                                        !.base_cmd = args.cmd, !.base_env = args.env]
       IN  IF CtorRaises(IN_CLUSTER)
           THEN self' = [based EXCEPT !.state = "NotRunningInKubernetesException"]
           ELSE self' = [based EXCEPT
                           !.state = "ok", !.v1api = TRUE,
                           !.image = args.image, !.run_cmd = args.cmd,
                           !.labels = CtorLabels(args.labels, args.server_type,
                                                 args.session_id)]
    /\ UNCHANGED <<envVars, moduleVars, pod, pc, retryVars, calls, cur, prev>>

\* a method can be called: there is an instance and no call is in progress
CanCall == self.state = "ok" /\ pc = "idle" /\ calls < MaxCalls

Begin(op) ==
    /\ CanCall
    /\ calls' = calls + 1
    /\ prev' = Summary(cur)

(***************************************************************************)
(* The retry driver of the decorators of lines 127 and 134: call the body; *)
(* on the exception class the decorator names count the try down, raise it *)
(* when no try is left, else sleep _delay and scale it; any other          *)
(* exception leaves the driver at once.                                    *)
(***************************************************************************)
\* the delay is scaled but not capped
NextDelayUncapped(d) == d * Backoff

\* _delay *= backoff; _delay = min(_delay, max_delay)
NextDelay(d) == Min(d * Backoff, MaxDelay)

\* the driver tests the tries before it counts the failed one
RetryStepTestsBeforeCount(exc, catches, t) ==
    IF exc # catches THEN "propagate"
    ELSE IF t = 0 THEN "exhausted"
    ELSE "sleep"

\* the body's exception exc was raised with t tries left: what the driver does
RetryStep(exc, catches, t) ==
    IF exc # catches THEN "propagate"
    ELSE IF t - 1 = 0 THEN "exhausted"
    ELSE "sleep"

\* an API error of the status read is turned into "not running"
WaitUntilRunningTranslatesApiError(resp) ==
    IF resp.kind = "err" THEN "ServerFixtureNotRunningException"
    ELSE IF resp.phase # "Running" THEN "ServerFixtureNotRunningException"
    ELSE "return"

\* _wait_until_running, lines 128-132: the exception the body raises, or "return"
WaitUntilRunning(resp) ==
    IF resp.kind = "err" THEN "ApiException"
    ELSE IF resp.phase # "Running" THEN "ServerFixtureNotRunningException"
    ELSE "return"

\* a pod that has stopped counts as gone
WaitUntilTeardownStoppedIsGone(resp) ==
    IF resp.kind = "ok"
    THEN IF resp.phase \in {"Succeeded", "Failed"} THEN "return"
         ELSE "ServerFixtureNotTerminatedException"
    ELSE IF resp.status = NotFound THEN "return"
    ELSE "ApiException"

\* the 404 is not told apart from the other API errors
WaitUntilTeardownNo404(resp) ==
    IF resp.kind = "ok" THEN "ServerFixtureNotTerminatedException"
    ELSE "ApiException"

\* every API error other than 404 is retried
WaitUntilTeardownRetriesApiError(resp) ==
    IF resp.kind = "ok" THEN "ServerFixtureNotTerminatedException"
    ELSE IF resp.status = NotFound THEN "return"
    ELSE "ServerFixtureNotTerminatedException"

\* _wait_until_teardown, lines 135-142
WaitUntilTeardown(resp) ==
    IF resp.kind = "ok" THEN "ServerFixtureNotTerminatedException"
    ELSE IF resp.status = NotFound THEN "return"
    ELSE "ApiException"

\* the status of an earlier read is kept and returned again
GetPodStatusCached(answer, earlier) == IF earlier.kind = "ok" THEN earlier ELSE answer

\* _get_pod_status, lines 119-125: the answer of this call's request, whatever an
\* earlier call returned
GetPodStatus(answer, earlier) == answer

\* the cleanup of a failed launch deletes the pod
LaunchExceptDeletes(c) == [c EXCEPT !.deletes = @ + 1]

\* the except clause of launch(), lines 62-64: log and re-raise
LaunchExcept(c) == c

\* one attempt of a polling loop: a status read, the body's verdict on it, and the
\* driver's reaction
Attempt(at, catches) ==
    /\ pc = at
    /\ \E answer \in ReadResponses(pod) :
         LET resp == GetPodStatus(answer, cur.last)
             c == [cur EXCEPT !.reads = @ + 1, !.last = resp,
                              !.founds = @ + (IF resp.kind = "ok" THEN 1 ELSE 0),
                              !.others = @ + (IF resp.kind = "ok" /\ resp.phase # "Running"
                                              THEN 1 ELSE 0)]
             verdict == IF at = "wait_running" THEN WaitUntilRunning(resp)
                        ELSE WaitUntilTeardown(resp)
             step == IF verdict = "return" THEN "return"
                     ELSE RetryStep(verdict, catches, tries)
         IN  CASE step = "return" ->
                    /\ cur' = Returned(c, <<>>)
                    /\ pc' = "idle"
                    /\ UNCHANGED retryVars
               [] step = "propagate" ->
                    /\ cur' = IF at = "wait_running"
                              THEN LaunchExcept(Raised(c, verdict, resp.status))
                              ELSE Raised(c, verdict, resp.status)
                    /\ pc' = "idle"
                    /\ UNCHANGED retryVars
               [] step = "exhausted" ->
                    /\ cur' = Raised(c, verdict, 0)
                    /\ pc' = "idle"
                    /\ tries' = tries - 1
                    /\ UNCHANGED delay
               [] OTHER ->
                    /\ cur' = c
                    /\ pc' = "sleep"
                    /\ tries' = tries - 1
                    /\ UNCHANGED delay
    /\ pod' = IF cur'.deletes # cur.deletes THEN [pod EXCEPT !.terminating = TRUE] ELSE pod
    /\ UNCHANGED <<envVars, moduleVars, self, calls, prev>>

\* time.sleep(_delay) between two attempts
BackoffSleep ==
    /\ pc = "sleep"
    /\ cur' = [cur EXCEPT !.sleeps = @ + 1, !.slept = @ + delay, !.lastSleep = delay]
    /\ delay' = NextDelay(delay)
    /\ pc' = IF cur.op = "launch" THEN "wait_running" ELSE "wait_teardown"
    /\ UNCHANGED <<envVars, moduleVars, self, pod, tries, calls, prev>>

(***************************************************************************)
(* launch(), lines 56-64.                                                  *)
(***************************************************************************)
\* line 58 formats self._log_prefix, which reads the global `namespace`
Launch ==
    /\ Begin("launch")
    /\ IF namespace.bound
       THEN cur' = Fresh("launch") /\ pc' = "create"
       ELSE cur' = Raised(Fresh("launch"), "NameError", 0) /\ pc' = "idle"
    /\ UNCHANGED <<envVars, moduleVars, self, pod, retryVars>>

\* the error of the create request is logged and swallowed, as _delete_pod does
CreateFailureSwallowed(c, resp) == c

\* what launch() does with an ApiException of _create_pod (lines 106-108, 62-64)
CreateFailure(c, resp) == Raised(c, "ApiException", resp.status)

\* _create_pod, lines 100-108, and the entry into the retry driver
CreatePod ==
    /\ pc = "create"
    /\ \E resp \in CreateResponses(pod) :
         LET c == [cur EXCEPT !.creates = @ + 1, !.createFailed = (resp.kind = "err"),
                              !.body = PodBody(self), !.ns = namespace.val]
         IN  IF resp.kind = "ok"
             THEN /\ pod' = Created
                  /\ cur' = c
                  /\ pc' = "wait_running"
                  /\ tries' = Tries
                  /\ delay' = Delay
             ELSE /\ cur' = CreateFailure(c, resp)
                  /\ IF cur'.done
                     THEN pc' = "idle" /\ UNCHANGED retryVars
                     ELSE pc' = "wait_running" /\ tries' = Tries /\ delay' = Delay
                  /\ UNCHANGED pod
    /\ UNCHANGED <<envVars, moduleVars, self, calls, prev>>

WaitRunningAttempt ==
    Attempt("wait_running", "ServerFixtureNotRunningException")

(***************************************************************************)
(* run(), lines 66-67.                                                     *)
(***************************************************************************)
\* run() is left abstract, as in a base class
RunBodyRaises(c) == Raised(c, "NotImplementedError", 0)

\* line 67: pass
RunBody(c) == Returned(c, <<>>)

Run ==
    /\ Begin("run")
    /\ cur' = RunBody(Fresh("run"))
    /\ UNCHANGED <<envVars, moduleVars, self, pod, pc, retryVars>>

(***************************************************************************)
(* teardown(), lines 69-72.                                                *)
(***************************************************************************)
\* line 115 reads self.namespace inside a try that catches ApiException only
Teardown ==
    /\ Begin("teardown")
    /\ IF namespace.bound
       THEN cur' = Fresh("teardown") /\ pc' = "delete"
       ELSE cur' = Raised(Fresh("teardown"), "NameError", 0) /\ pc' = "idle"
    /\ UNCHANGED <<envVars, moduleVars, self, pod, retryVars>>

\* what teardown() does with an ApiException of the delete request (lines 116-117)
DeleteFailure(c, resp) == c

\* _delete_pod, lines 110-117, and the entry into the retry driver
DeletePod ==
    /\ pc = "delete"
    /\ \E resp \in DeleteResponses(pod) :
         LET c == [cur EXCEPT !.deletes = @ + 1, !.grace = GracePeriod,
                              !.deleteFailed = (resp.kind = "err")]
         IN  IF resp.kind = "ok"
             THEN /\ pod' = [pod EXCEPT !.terminating = TRUE]
                  /\ cur' = c
             ELSE /\ cur' = DeleteFailure(c, resp)
                  /\ UNCHANGED pod
    /\ IF cur'.done
       THEN pc' = "idle" /\ UNCHANGED retryVars
       ELSE pc' = "wait_teardown" /\ tries' = Tries /\ delay' = Delay
    /\ UNCHANGED <<envVars, moduleVars, self, calls, prev>>

WaitTeardownAttempt ==
    Attempt("wait_teardown", "ServerFixtureNotTerminatedException")

(***************************************************************************)
(* hostname, lines 74-79, and namespace, lines 81-83.                      *)
(***************************************************************************)
\* the phase test is inverted
HostnameResultInverted(c, resp) ==
    IF resp.phase = "Running"
    THEN Raised(c, "ServerFixtureNotRunningException", 0)
    ELSE Returned(c, resp.pod_ip)

\* lines 77-79
HostnameResult(c, resp) ==
    IF resp.phase # "Running"
    THEN Raised(c, "ServerFixtureNotRunningException", 0)
    ELSE Returned(c, resp.pod_ip)

Hostname ==
    /\ Begin("hostname")
    /\ IF ~namespace.bound
       THEN cur' = Raised(Fresh("hostname"), "NameError", 0)
       ELSE \E answer \in ReadResponses(pod) :
              LET resp == GetPodStatus(answer, cur.last)
                  c == [Fresh("hostname") EXCEPT !.reads = 1, !.last = resp,
                                                 !.founds = IF resp.kind = "ok" THEN 1 ELSE 0]
              IN  cur' = IF resp.kind = "err"
                         THEN Raised(c, "ApiException", resp.status)
                         ELSE HostnameResult(c, resp)
    /\ UNCHANGED <<envVars, moduleVars, self, pod, pc, retryVars>>

NamespaceRead ==
    /\ Begin("namespace")
    /\ cur' = IF namespace.bound
              THEN Returned(Fresh("namespace"), namespace.val)
              ELSE Raised(Fresh("namespace"), "NameError", 0)
    /\ UNCHANGED <<envVars, moduleVars, self, pod, pc, retryVars>>

\* labels, lines 85-87
LabelsRead ==
    /\ Begin("labels")
    /\ cur' = [Returned(Fresh("labels"), <<>>) EXCEPT !.labels = self.labels]
    /\ UNCHANGED <<envVars, moduleVars, self, pod, pc, retryVars>>

(***************************************************************************)
(* The cluster's own steps on the pod.                                     *)
(***************************************************************************)
\* launch() is polling: a try is pending or left
Polling == cur.op = "launch" /\ pc \in {"wait_running", "sleep"}

PodSchedule ==
    /\ pod.present /\ pod.pod_ip = <<>>
    /\ pod' = [pod EXCEPT !.pod_ip = PodIP]
    /\ UNCHANGED <<envVars, moduleVars, self, pc, retryVars, calls, cur, prev>>

PodPhase ==
    /\ pod.present /\ pod.pod_ip # <<>>
    /\ \E ph \in PhaseSteps(pod.phase) :
         /\ pod' = [pod EXCEPT !.phase = ph]
         /\ cur' = IF ph = "Running" /\ Polling
                   THEN [cur EXCEPT !.sawRunning = TRUE] ELSE cur
    /\ UNCHANGED <<envVars, moduleVars, self, pc, retryVars, calls, prev>>

PodReap ==
    /\ pod.present /\ pod.terminating
    /\ pod' = Absent
    /\ UNCHANGED <<envVars, moduleVars, self, pc, retryVars, calls, cur, prev>>

Next ==
    \/ ModuleStart
    \/ HarnessPatch
    \/ Construct
    \/ Launch
    \/ CreatePod
    \/ WaitRunningAttempt
    \/ BackoffSleep
    \/ Run
    \/ Teardown
    \/ DeletePod
    \/ WaitTeardownAttempt
    \/ Hostname
    \/ NamespaceRead
    \/ LabelsRead
    \/ PodSchedule
    \/ PodPhase
    \/ PodReap

Spec == Init /\ [][Next]_vars

\* construction, the labels read and the create request, for every argument of ArgSets
NextArgs ==
    \/ ModuleStart
    \/ HarnessPatch
    \/ Construct
    \/ LabelsRead
    \/ Launch
    \/ CreatePod

SpecArgs == InitArgs /\ [][NextArgs]_vars

\* outside a cluster and with no namespace configured: the one start from which an
\* instance can come to exist
InitFair == Init /\ ~markerFile /\ cfgNs = <<>>

(***************************************************************************)
(* Several controllers in one session.  Each runs the life cycle of the     *)
(* fixture: constructor, launch(), hostname, teardown().  A step of one     *)
(* controller is a step of the methods above on that controller's state    *)
(* and on the pod its request names.                                       *)
(***************************************************************************)
\* every instance sends the same name
RequestNameShared(l) == "pod-a"

\* name=self.name, lines 103, 115 and 121
RequestName(l) == l.name

Ended(l) == [l EXCEPT !.pc = "idle", !.tries = 0, !.delay = 0]
Called(l, op) ==
    [l EXCEPT !.stage = @ + 1, !.op = op, !.done = FALSE, !.outcome = "none",
              !.status = 0, !.value = <<>>]

\* the steps one controller can take from its state l when the pod it names is p:
\* the controller's next state, the pod's, and whether a request was sent.  A step is
\* one request with what the thread does up to its next request: a call begins with
\* its create or delete, an attempt that is retried ends with its sleep.
SoloNext(l, p) ==
    LET Step(l2, p2, req) == [l |-> l2, p |-> p2, req |-> req]
        Poll(verdict(_), catches) ==
            {LET v == verdict(resp)
                 step == IF v = "return" THEN "return" ELSE RetryStep(v, catches, l.tries)
             IN  CASE step = "return" -> Step(Ended(Returned(l, <<>>)), p, TRUE)
                   [] step = "propagate" -> Step(Ended(Raised(l, v, resp.status)), p, TRUE)
                   [] step = "exhausted" -> Step(Ended(Raised(l, v, 0)), p, TRUE)
                   [] OTHER -> Step([l EXCEPT !.tries = @ - 1, !.delay = NextDelay(@)],
                                    p, TRUE)
             : resp \in ReadResponses(p)}
        Enter(l2, at) == [l2 EXCEPT !.pc = at, !.tries = Tries, !.delay = Delay]
    IN  CASE l.pc = "idle" /\ l.stage = 1 ->
               IF namespace.bound
               THEN {IF resp.kind = "ok"
                     THEN Step(Enter(Called(l, "launch"), "wait_running"), Created, TRUE)
                     ELSE Step(Ended(CreateFailure(Called(l, "launch"), resp)), p, TRUE)
                     : resp \in CreateResponses(p)}
               ELSE {Step(Raised(Called(l, "launch"), "NameError", 0), p, FALSE)}
          [] l.pc = "wait_running" ->
               Poll(WaitUntilRunning, "ServerFixtureNotRunningException")
          [] l.pc = "idle" /\ l.stage = 2 ->
               IF namespace.bound
               THEN {Step(IF resp.kind = "err"
                          THEN Raised(Called(l, "hostname"), "ApiException", resp.status)
                          ELSE HostnameResult(Called(l, "hostname"), resp), p, TRUE)
                     : resp \in ReadResponses(p)}
               ELSE {Step(Raised(Called(l, "hostname"), "NameError", 0), p, FALSE)}
          [] l.pc = "idle" /\ l.stage = 3 ->
               IF namespace.bound
               THEN {IF resp.kind = "ok"
                     THEN Step(Enter(Called(l, "teardown"), "wait_teardown"),
                               [p EXCEPT !.terminating = TRUE], TRUE)
                     ELSE Step(Enter(DeleteFailure(Called(l, "teardown"), resp),
                                     "wait_teardown"), p, TRUE)
                     : resp \in DeleteResponses(p)}
               ELSE {Step(Raised(Called(l, "teardown"), "NameError", 0), p, FALSE)}
          [] l.pc = "wait_teardown" ->
               Poll(WaitUntilTeardown, "ServerFixtureNotTerminatedException")
          [] OTHER -> {}

\* the constructor of one more controller
MConstruct ==
    /\ module = "loaded"
    /\ ~CtorRaises(IN_CLUSTER)
    /\ \E c \in Controllers :
         /\ ctl[c].stage = 0
         /\ ctl' = [ctl EXCEPT ![c].stage = 1]
    /\ UNCHANGED <<markerFile, cfgNs, args, moduleVars, self, pod, pc, retryVars, calls,
                   cur, prev, pods>>

\* one step of one controller
MStep ==
    /\ \E c \in Controllers :
         LET n == RequestName(ctl[c])
         IN  \E s \in SoloNext(ctl[c], pods[n]) :
               /\ ctl' = [ctl EXCEPT ![c] = [s.l EXCEPT !.touched =
                                                IF s.req THEN @ \cup {n} ELSE @]]
               /\ pods' = [pods EXCEPT ![n] = s.p]
    /\ UNCHANGED <<markerFile, cfgNs, args, moduleVars, self, pod, pc, retryVars, calls,
                   cur, prev>>

\* the phases a pod of the session can move to, its scheduling and its removal
PodSteps(p) ==
    IF ~p.present THEN {}
    ELSE (IF p.pod_ip = <<>> THEN {[p EXCEPT !.pod_ip = PodIP]}
          ELSE {[p EXCEPT !.phase = ph] : ph \in PhaseSteps(p.phase)})
         \cup (IF p.terminating THEN {Absent} ELSE {})

MPodStep ==
    /\ \E n \in PodNames : \E p2 \in PodSteps(pods[n]) : pods' = [pods EXCEPT ![n] = p2]
    /\ UNCHANGED <<markerFile, cfgNs, args, moduleVars, self, pod, pc, retryVars, calls,
                   cur, prev, ctl>>

NextMulti ==
    \/ ModuleStart
    \/ HarnessPatch
    \/ MConstruct
    \/ MStep
    \/ MPodStep

SpecMulti == InitFair /\ [][NextMulti]_vars

\* every request the calling thread sends is answered, and every sleep ends
Fairness ==
    /\ WF_vars(CreatePod)
    /\ WF_vars(WaitRunningAttempt)
    /\ WF_vars(DeletePod)
    /\ WF_vars(WaitTeardownAttempt)
    /\ WF_vars(BackoffSleep)

SpecFair == InitFair /\ [][Next]_vars /\ Fairness

TypeOK ==
    /\ markerFile \in BOOLEAN
    /\ module \in {"unloaded", "loaded", "NameError"}
    /\ pc \in {"idle", "create", "wait_running", "sleep", "delete", "wait_teardown"}
    /\ tries \in 0..Tries
    /\ delay \in 0..MaxDelay
    /\ calls \in 0..MaxCalls

(***************************************************************************)
(* Properties.                                                             *)
(***************************************************************************)
SawRunningRead(c) == c.last.kind = "ok" /\ c.last.phase = "Running"

\* C1: a launch() whose status reads all succeed with a phase other than Running makes
\* exactly 28 of them and then raises ServerFixtureNotRunningException; launch() never
\* makes a 29th status read.
C1_LaunchExhaustsAfter28Reads ==
    cur.op = "launch" =>
        /\ cur.reads <= 28
        /\ (cur.reads >= 1 /\ cur.others = cur.reads) =>
               /\ cur.done => cur.reads = 28 /\ cur.outcome = "ServerFixtureNotRunningException"
               /\ cur.reads = 28 => cur.done /\ pc = "idle"

C1_Witness ==
    /\ cur.op = "launch" /\ cur.done
    /\ cur.reads = 28 /\ cur.others = 28
    /\ cur.outcome = "ServerFixtureNotRunningException"

\* C2 as stated: whenever the pod becomes Running while launch() still has tries, launch()
\* returns normally and the hostname read that follows returns a non-empty address.
C2_RunningWithinBudgetGivesHostname ==
    /\ (cur.op = "launch" /\ cur.done /\ cur.sawRunning) => cur.outcome = "ok"
    /\ (cur.op = "hostname" /\ prev.op = "launch" /\ prev.sawRunning) =>
           prev.outcome = "ok" /\ cur.outcome = "ok" /\ cur.value # <<>>

\* C2 amended: when a status read of launch() observes Running, launch() returns normally,
\* and launch() returns normally only then; the hostname read that follows, when its own
\* status read reports Running again, returns the pod IP of that status, which is not empty.
C2_ObservedRunningGivesHostname ==
    /\ (cur.op = "launch" /\ SawRunningRead(cur)) => cur.done /\ cur.outcome = "ok"
    /\ (cur.op = "launch" /\ cur.outcome = "ok") => SawRunningRead(cur)
    /\ (cur.op = "hostname" /\ prev.op = "launch" /\ prev.outcome = "ok"
            /\ SawRunningRead(cur)) =>
           cur.outcome = "ok" /\ cur.value = cur.last.pod_ip /\ cur.value # <<>>

C2_Witness ==
    /\ cur.op = "hostname" /\ prev.op = "launch" /\ prev.outcome = "ok"
    /\ cur.outcome = "ok" /\ cur.value = PodIP

\* C3: a teardown() whose 28 status reads all find the pod, in whatever phase, raises
\* ServerFixtureNotTerminatedException after the 28th read; teardown() never makes a 29th.
C3_TeardownExhaustsAfter28Reads ==
    cur.op = "teardown" =>
        /\ cur.reads <= 28
        /\ cur.founds = 28 =>
               /\ cur.done /\ pc = "idle"
               /\ cur.outcome = "ServerFixtureNotTerminatedException"
        /\ (cur.done /\ cur.founds = cur.reads /\ cur.reads >= 1) => cur.reads = 28

C3_Witness ==
    /\ cur.op = "teardown" /\ cur.done /\ cur.founds = 28
    /\ cur.last.phase = "Succeeded"
    /\ cur.outcome = "ServerFixtureNotTerminatedException"

\* C4: a teardown() whose first status read answers 404 returns normally after that one
\* read, also when its delete request failed with an API error.
C4_TeardownOfAbsentPodReturns ==
    (cur.op = "teardown" /\ cur.reads = 1 /\ cur.last.kind = "err"
        /\ cur.last.status = NotFound) =>
        cur.done /\ cur.outcome = "ok" /\ pc = "idle"

C4_Witness ==
    /\ cur.op = "teardown" /\ cur.reads = 1 /\ cur.deleteFailed
    /\ cur.last.status = NotFound /\ ~pod.present
    /\ cur.done /\ cur.outcome = "ok"

\* C5 as stated: in launch() every attempt that does not see Running is retried while tries
\* remain, a failed status read included: launch() ends only on a Running read or with
\* ServerFixtureNotRunningException after the 28th read.
C5_ApiErrorIsRetried ==
    (cur.op = "launch" /\ cur.done /\ cur.reads >= 1) =>
        \/ cur.outcome = "ok" /\ SawRunningRead(cur)
        \/ cur.outcome = "ServerFixtureNotRunningException" /\ cur.reads = 28

\* C5 amended: in launch() an attempt whose status read succeeds with a phase other than
\* Running is retried while tries remain; an attempt whose status read fails with an API
\* error is not retried: launch() raises that ApiException at once.
C5_ApiErrorPropagates ==
    (cur.op = "launch" /\ cur.reads >= 1) =>
        /\ (cur.last.kind = "ok" /\ cur.last.phase # "Running" /\ cur.reads < 28) =>
               ~cur.done /\ pc \in {"sleep", "wait_running"}
        /\ cur.last.kind = "err" =>
               /\ cur.done /\ pc = "idle"
               /\ cur.outcome = "ApiException" /\ cur.status = cur.last.status
               /\ cur.sleeps = cur.reads - 1

C5_Witness ==
    /\ cur.op = "launch" /\ cur.reads = 3 /\ cur.others = 2
    /\ cur.last.kind = "err" /\ cur.outcome = "ApiException"

\* C6: a status read of teardown() that fails with an API error other than 404 ends
\* teardown() with that ApiException at once, on whatever attempt: the driver neither
\* counts the try nor sleeps.
C6_TeardownApiErrorPropagates ==
    (cur.op = "teardown" /\ cur.last.kind = "err" /\ cur.last.status # NotFound) =>
        /\ cur.done /\ pc = "idle"
        /\ cur.outcome = "ApiException" /\ cur.status = cur.last.status
        /\ cur.sleeps = cur.reads - 1
        /\ tries = Tries - (cur.reads - 1)

C6_Witness ==
    /\ cur.op = "teardown" /\ cur.reads = 5 /\ cur.founds = 4
    /\ cur.last.status = ServerError /\ cur.outcome = "ApiException"

\* C7: launch() sends at most one create request; when it fails, launch() raises that
\* ApiException at once, having made no status read.
C7_CreateFailureIsRaisedOnce ==
    cur.op = "launch" =>
        /\ cur.creates <= 1
        /\ cur.createFailed =>
               /\ cur.done /\ pc = "idle"
               /\ cur.outcome = "ApiException"
               /\ cur.creates = 1 /\ cur.reads = 0 /\ cur.sleeps = 0

C7_Witness ==
    /\ cur.op = "launch" /\ cur.createFailed /\ cur.done
    /\ cur.outcome = "ApiException" /\ cur.status = ServerError

\* C8: in both loops the n-th sleep, which follows the n-th failed attempt, lasts
\* min(2^(n-1), 10): 1, 2, 4, 8, 10, 10, ...; the sleeps never get shorter and never
\* exceed 10.
C8_BackoffDelays ==
    /\ [](cur.sleeps >= 1 =>
            /\ cur.lastSleep = Min(Pow2(cur.sleeps - 1), 10)
            /\ cur.lastSleep <= 10)
    /\ [][cur'.sleeps = cur.sleeps + 1 =>
            /\ pc = "sleep" /\ cur'.lastSleep = delay
            /\ cur'.sleeps = 28 - tries
            /\ cur.sleeps >= 1 => cur'.lastSleep >= cur.lastSleep]_vars

C8_Witness ==
    /\ cur.op = "teardown" /\ cur.sleeps = 27 /\ cur.lastSleep = 10
    /\ prev.op = "launch" /\ prev.outcome = "ServerFixtureNotRunningException"

\* C9: with the marker file absent and the module as it started, the constructor raises
\* NotRunningInKubernetesException: no API client is acquired, no in-cluster configuration
\* is loaded, no request reaches the cluster, and no method of the instance ever runs.
C9_ConstructOutsideClusterRaises ==
    (self.state # "none" /\ ~markerFile /\ ~patched) =>
        /\ self.state = "NotRunningInKubernetesException"
        /\ ~self.v1api /\ ~configLoaded
        /\ calls = 0 /\ cur = Fresh("none") /\ pc = "idle"
        /\ pod = Absent

C9_Witness ==
    /\ self.state = "NotRunningInKubernetesException" /\ ~markerFile /\ ~patched
    /\ self.base

\* C10: module start-up in a cluster completes and leaves the global `namespace` bound to
\* the configured namespace when one is set, else to the stripped marker file content.
C10_NamespaceResolvedAtStart ==
    (module # "unloaded" /\ markerFile) =>
        /\ module = "loaded"
        /\ namespace = Bound(IF cfgNs # <<>> THEN cfgNs ELSE Strip(MarkerContent))

\* C11: the label set holds every caller key that is no system key with the caller's
\* value, and the three system keys with the fixed value, the server_type and the session
\* id, whatever the caller passed for them; the labels read returns that set.
C11_SystemLabelsWin ==
    self.state = "ok" =>
        /\ DOMAIN self.labels = DOMAIN args.labels \cup SystemKeys
        /\ \A k \in DOMAIN args.labels \ SystemKeys : self.labels[k] = args.labels[k]
        /\ self.labels["server-fixtures"] = "kubernetes-server-fixtures"
        /\ self.labels["server-fixtures/server-type"] = args.server_type
        /\ self.labels["server-fixtures/session-id"] = args.session_id
        /\ cur.op = "labels" => cur.outcome = "ok" /\ cur.labels = self.labels

C11_Witness ==
    /\ cur.op = "labels" /\ cur.done
    /\ args.server_type = "mongo"
    /\ DOMAIN args.labels = CallerKeys
    /\ args.labels["server-fixtures"] = "x"
    /\ args.labels["server-fixtures/server-type"] = "redis"
    /\ cur.labels["team"] = "x"
    /\ cur.labels["server-fixtures/server-type"] = "mongo"

ExpectedContainer == [name |-> "fixture", image |-> args.image, command |-> args.cmd]

\* C12 as stated: a hostname read makes exactly one status read, raises
\* ServerFixtureNotRunningException when the phase read is not Running and else returns the
\* pod IP of that status; it sends no create and no delete request.
C12_HostnameReadsOnce ==
    (cur.op = "hostname" /\ cur.done) =>
        /\ cur.reads = 1 /\ cur.creates = 0 /\ cur.deletes = 0
        /\ (cur.last.kind = "ok" /\ cur.last.phase # "Running") =>
               cur.outcome = "ServerFixtureNotRunningException"
        /\ SawRunningRead(cur) => cur.outcome = "ok" /\ cur.value = cur.last.pod_ip

\* C12 where the global `namespace` is bound: the statement above holds, the status is the
\* cluster's answer at the time of the read, and the read changes neither the instance nor
\* the pod nor the retry driver's state.
C12_HostnameReadsOnceWhenBound ==
    /\ [](namespace.bound => C12_HostnameReadsOnce)
    /\ [][(cur'.op = "hostname" /\ calls' = calls + 1 /\ namespace.bound) =>
            /\ cur'.last \in ReadResponses(pod)
            /\ self' = self /\ pod' = pod /\ pc' = pc
            /\ tries' = tries /\ delay' = delay]_vars

\* C14: the pod of the create request is named self.name, carries the merged label set,
\* and has exactly one container: name "fixture", the constructor's image, the list
\* get_cmd returned, and nothing else; env and get_cmd went to the base constructor.
C14_CreatedPodBody ==
    (cur.op = "launch" /\ cur.creates = 1) =>
        /\ cur.body.metadata = [name |-> self.name, labels |-> self.labels]
        /\ cur.body.spec = [containers |-> <<ExpectedContainer>>]
        /\ self.name = PodName
        /\ self.base_cmd = args.cmd /\ self.base_env = args.env

C14_Witness ==
    /\ cur.op = "launch" /\ cur.creates = 1 /\ ~cur.createFailed /\ pod.present
    /\ args.env # EmptyMap /\ args.cmd = <<"mongod", "--quiet">>
    /\ cur.body.spec.containers[1].command = <<"mongod", "--quiet">>
    /\ cur.body.metadata.labels["server-fixtures"] = "kubernetes-server-fixtures"

\* C15 as stated: every teardown() sends exactly one delete request, with grace period 1,
\* and then enters the absence wait, whether the delete succeeded or failed.
C15_TeardownDeletesOnce ==
    (cur.op = "teardown" /\ cur.done) =>
        cur.deletes = 1 /\ cur.grace = 1 /\ cur.reads >= 1

\* C15 where the global `namespace` is bound: one delete request with grace period 1
\* before the first status read, none during the wait, and the wait is entered after a
\* failed delete as after a successful one.
C15_TeardownDeletesOnceWhenBound ==
    (cur.op = "teardown" /\ namespace.bound) =>
        /\ cur.deletes = IF pc = "delete" THEN 0 ELSE 1
        /\ pc = "delete" => cur.reads = 0
        /\ pc # "delete" => cur.grace = 1
        /\ cur.done => cur.reads >= 1
        /\ (pc # "delete" /\ cur.reads = 0) => pc = "wait_teardown"

\* C17: run() does nothing: it returns normally in any state, sends no request, and
\* leaves the instance, the pod, the module globals and the retry driver as they were.
C17_RunIsNoOp ==
    /\ [](cur.op = "run" =>
            /\ cur.done /\ cur.outcome = "ok" /\ pc = "idle"
            /\ cur.creates = 0 /\ cur.deletes = 0 /\ cur.reads = 0 /\ cur.sleeps = 0)
    /\ [][(cur'.op = "run" /\ calls' = calls + 1) =>
            /\ self' = self /\ pod' = pod /\ pc' = pc
            /\ tries' = tries /\ delay' = delay
            /\ namespace' = namespace /\ IN_CLUSTER' = IN_CLUSTER]_vars

C17_Witness ==
    /\ cur.op = "run" /\ cur.done /\ cur.outcome = "ok"
    /\ prev.op = "launch" /\ prev.outcome = "ApiException"
    /\ pod.present /\ pod.phase = "Running"

InLoop == cur.op \in {"launch", "teardown"}

\* C16: in both loops every attempt makes one status read, whose answer is the cluster's
\* at that moment, and decides on it alone: launch() returns on the first read that says
\* Running, teardown() on the first that answers 404, whatever the earlier ones said.
C16_EveryAttemptReadsLive ==
    /\ []((InLoop /\ pc \in {"wait_running", "wait_teardown", "sleep"}) =>
            cur.reads + tries = 28)
    /\ [][(InLoop /\ cur'.reads # cur.reads /\ calls' = calls) =>
            /\ cur'.reads = cur.reads + 1
            /\ cur'.last \in ReadResponses(pod)
            /\ cur.op = "launch" => (SawRunningRead(cur') <=> cur'.outcome = "ok")
            /\ cur.op = "teardown" =>
                   ((cur'.last.kind = "err" /\ cur'.last.status = NotFound)
                        <=> cur'.outcome = "ok")]_vars

C16_Witness ==
    /\ cur.op = "teardown" /\ cur.done /\ cur.outcome = "ok"
    /\ cur.reads = 4 /\ cur.founds = 3
    /\ prev.op = "launch" /\ prev.outcome = "ok"

\* C18: launch() sends no delete request; the pod a launch() created is still there when
\* launch() fails and afterwards, until a teardown() has asked for its deletion.
C18_LaunchLeavesThePod ==
    /\ [](cur.op = "launch" =>
            /\ cur.deletes = 0
            /\ (cur.creates = 1 /\ ~cur.createFailed) => pod.present /\ ~pod.terminating)
    /\ []((prev.op = "launch" /\ prev.created /\ cur.op # "teardown") => pod.present)
    /\ [][(~pod.terminating /\ pod'.terminating) => cur.op = "teardown" /\ pc = "delete"]_vars
    /\ [][(pod.present /\ ~pod'.present) => pod.terminating]_vars

C18_Witness ==
    /\ prev.op = "launch" /\ prev.outcome = "ServerFixtureNotRunningException" /\ prev.created
    /\ cur.op = "teardown" /\ cur.done /\ cur.outcome = "ok"
    /\ ~pod.present

\* C19: a loop sleeps only between two attempts: not before the first, not after the one
\* that ends it, so at most 27 times and at most 1+2+4+8+23*10 = 245 time units in all.
C19_SleepsOnlyBetweenAttempts ==
    InLoop =>
        /\ cur.sleeps <= 27 /\ cur.slept <= 245
        /\ cur.reads = 0 => cur.sleeps = 0 /\ cur.slept = 0
        /\ pc \in {"wait_running", "wait_teardown"} => cur.sleeps = cur.reads
        /\ pc = "sleep" => cur.sleeps = cur.reads - 1
        /\ (cur.done /\ cur.reads >= 1) => cur.sleeps = cur.reads - 1

C19_Witness ==
    /\ cur.op = "launch" /\ cur.done /\ cur.reads = 28
    /\ cur.sleeps = 27 /\ cur.slept = 245

\* C20: every launch() and every teardown() ends, by a return or a raise, when each of its
\* requests is answered; launch() sends at most 1 create request and 28 status reads,
\* teardown() at most 1 delete request and 28 status reads.
C20_CallsTerminate ==
    /\ [](cur.op = "launch" => cur.creates <= 1 /\ cur.deletes = 0 /\ cur.reads <= 28)
    /\ [](cur.op = "teardown" => cur.deletes <= 1 /\ cur.creates = 0 /\ cur.reads <= 28)
    /\ [](pc = "idle" <=> (cur.done \/ cur.op = "none"))
    /\ (pc # "idle") ~> (pc = "idle")

C20_Witness ==
    /\ cur.op = "teardown" /\ cur.done /\ cur.reads = 28 /\ cur.deletes = 1
    /\ prev.op = "launch" /\ prev.outcome = "ok"

\* C13: every request of a controller names its own pod; a step of one controller is a
\* step of the methods on its own state and its own pod alone, and changes neither another
\* controller nor another controller's pod; a change of one pod changes no controller.
C13_ControllersDoNotInteract ==
    /\ [](\A c \in Controllers : ctl[c].touched \subseteq {NameOf(c)})
    /\ [][\A c \in Controllers :
            ctl'[c] # ctl[c] =>
                /\ \A d \in Controllers \ {c} :
                       ctl'[d] = ctl[d] /\ pods'[NameOf(d)] = pods[NameOf(d)]
                /\ \/ ctl[c].stage = 0
                   \/ \E s \in SoloNext(ctl[c], pods[NameOf(c)]) :
                        /\ s.p = pods'[NameOf(c)]
                        /\ s.l = [ctl'[c] EXCEPT !.touched = ctl[c].touched]]_vars
    /\ [][(ctl' = ctl) \/ (\E c \in Controllers : ctl'[c] # ctl[c])]_vars

C13_Witness ==
    /\ ctl["a"].stage = 4 /\ ctl["a"].done /\ ctl["a"].outcome = "ok"
    /\ ctl["a"].touched = {"pod-a"} /\ ~pods["pod-a"].present
    /\ ctl["b"].op = "launch" /\ ctl["b"].outcome = "ServerFixtureNotRunningException"
    /\ ctl["b"].touched = {"pod-b"} /\ pods["pod-b"].present

====
